---- MODULE Spec2Model ----
(***************************************************************************)
(* EV charging simulator: the User charging state machine, its             *)
(* EventStream, the UserController that steps a population and the         *)
(* Simulator loop (src/_user.py, src/_events.py, src/_user_controller.py,  *)
(* src/_simulator.py, src/_user_archetype.py).                             *)
(*                                                                         *)
(* Number representation.  The program computes with datetimes and floats; *)
(* the model uses integers:                                                *)
(*   - a datetime is a number of minutes since midnight of the day on      *)
(*     which the archetypes are constructed (datetime.now().date());       *)
(*     a timedelta is a number of minutes;                                 *)
(*   - a percentage (soc_pcnt, current_charge_pcnt, target_soc_pcnt,       *)
(*     plug_in_soc_pcnt) is held in tenths of a percent: 200 is 20.0 %;    *)
(*   - a power is held in watts, battery_kwh and charger_kw in whole kWh   *)
(*     and kW;                                                             *)
(*   - a float division is a floor division at that resolution.            *)
(***************************************************************************)
EXTENDS Integers, Sequences, FiniteSets, TLC

\* Size of the population handed to the UserController.
NumUsers == 2

\* Length of the simulated range, end_time - start_time, in minutes.
Horizon == 300

\* timedelta(days=1), in minutes.
MinutesPerDay == 1440

\* Number of days of a long run.
NumDays == 3

VARIABLES
    users,         \* UserController.user_archetypes: 1..NumUsers -> User
    start_time,    \* the start_time given to Simulator.__init__
    current_time,  \* Simulator.current_time
    end_time,      \* Simulator.end_time
    td,            \* the tick given to Simulator.run
    pc,            \* where Simulator.run is
    idx,           \* position of the for loop of the controller operation
    error_log,     \* what the controller passed to user.logger.error
    loader         \* the locals of Simulator._load_population_of_users

vars == <<users, start_time, current_time, end_time, td, pc, idx, error_log, loader>>

----------------------------------------------------------------------------
\* Configuration values (config_json.json is parsed by json.load: a field is
\* a number, or null when the record has no usable value).

JsonNumber(v) == [type |-> "number", value |-> v]

JsonNull == [type |-> "null", value |-> 0]

\* One record of the configuration: the fields the core reads.
UserConfig(name, battery_kwh, charger_kw, plug_in_time_hr, plug_out_time_hr, target_soc_pcnt, plug_in_soc_pcnt) ==
    [name |-> name, battery_kwh |-> battery_kwh, charger_kw |-> charger_kw,
     plug_in_time_hr |-> plug_in_time_hr, plug_out_time_hr |-> plug_out_time_hr,
     target_soc_pcnt |-> target_soc_pcnt, plug_in_soc_pcnt |-> plug_in_soc_pcnt]

\* The configurations a user of the population is drawn from.  Times of day
\* are minutes after midnight (01:00 = 60, 03:00 = 180, 22:00 = 1320,
\* 06:00 = 360).
Configs ==
    { UserConfig("regular",   10, 7,   60, 180, JsonNumber(800), 200),
      UserConfig("slow",      50, 3,   60, 180, JsonNumber(800), 200),
      UserConfig("faulty",     0, 7,   60, 180, JsonNumber(800), 200),
      UserConfig("full",      10, 7,   60, 180, JsonNumber(800), 800),
      UserConfig("notarget",  10, 7,   60, 180, JsonNull,        200),
      UserConfig("overnight", 10, 7, 1320, 360, JsonNumber(800), 200) }

\* A user plugged in from 00:00 to 23:00.
PluggedConfig == UserConfig("plugged", 10, 7, 0, 1380, JsonNumber(800), 200)

\* A user with a large battery plugged in from 05:00 to 13:00.
DaytimeConfig == UserConfig("daytime", 100, 3, 300, 780, JsonNumber(800), 200)

\* The start times of a run: midnight and 21:30 of the construction day.
StartTimes == {0, 1290}

\* The ticks given to run().
Ticks == {30, 60}

----------------------------------------------------------------------------
\* datetime.combine(date, time): date in days, time in minutes after midnight.
combine(date, time) == date * MinutesPerDay + time

\* datetime.date() and datetime.time() of a datetime.
date_of(dt) == dt \div MinutesPerDay

time_of(dt) == dt % MinutesPerDay

\* _calculate_plug_out_datetime with <= for < in its comparison.
_calculate_plug_out_datetime_non_strict(plug_in_datetime, plug_out_time) ==
    IF plug_out_time <= time_of(plug_in_datetime)
    THEN combine(date_of(plug_in_datetime) + 1, plug_out_time)
    ELSE combine(date_of(plug_in_datetime), plug_out_time)

\* UserArchetype._calculate_plug_out_datetime
_calculate_plug_out_datetime(plug_in_datetime, plug_out_time) ==
    LET plug_in_time == time_of(plug_in_datetime) IN
    IF plug_out_time < plug_in_time
    THEN combine(date_of(plug_in_datetime) + 1, plug_out_time)
    ELSE combine(date_of(plug_in_datetime), plug_out_time)

----------------------------------------------------------------------------
\* Events (src/_events.py).  An Event has event_type, timestamp and the
\* keyword attribute its append_* method sets.

SocEvent(event_type, timestamp, soc_pcnt) ==
    [event_type |-> event_type, timestamp |-> timestamp, soc_pcnt |-> soc_pcnt]

ChargeStatusEvent(timestamp, is_charging) ==
    [event_type |-> "REPORT_CHARGE_STATUS", timestamp |-> timestamp,
     is_charging |-> is_charging]

PowerDrawEvent(timestamp, power_draw_kw) ==
    [event_type |-> "REPORT_POWER_DRAW", timestamp |-> timestamp,
     power_draw_kw |-> power_draw_kw]

\* What a Python function returns when it falls off its end.
None == [event_type |-> "None"]

\* append_report_charge_status inserting at the head of the list.
append_report_charge_status_at_head(es, timestamp, is_charging) ==
    <<ChargeStatusEvent(timestamp, is_charging)>> \o es

\* append_report_soc overwriting the last event of the list.
append_report_soc_overwriting(es, timestamp, soc_pcnt) ==
    IF es = <<>> THEN <<SocEvent("REPORT_SOC", timestamp, soc_pcnt)>>
    ELSE [es EXCEPT ![Len(es)] = SocEvent("REPORT_SOC", timestamp, soc_pcnt)]

append_start_charging(es, timestamp, soc_pcnt) ==
    Append(es, SocEvent("START_CHARGING", timestamp, soc_pcnt))

append_stop_charging(es, timestamp, soc_pcnt) ==
    Append(es, SocEvent("STOP_CHARGING", timestamp, soc_pcnt))

append_report_soc(es, timestamp, soc_pcnt) ==
    Append(es, SocEvent("REPORT_SOC", timestamp, soc_pcnt))

append_report_charge_status(es, timestamp, is_charging) ==
    Append(es, ChargeStatusEvent(timestamp, is_charging))

append_report_power_draw(es, timestamp, power_draw_kw) ==
    Append(es, PowerDrawEvent(timestamp, power_draw_kw))

\* last_reported_soc scanning _event_stream from its head.
last_reported_soc_from_head(es) ==
    IF \E n \in DOMAIN es : es[n].event_type = "REPORT_SOC"
    THEN es[CHOOSE n \in DOMAIN es :
                /\ es[n].event_type = "REPORT_SOC"
                /\ \A m \in 1..(n - 1) : es[m].event_type # "REPORT_SOC"]
    ELSE None

\* EventStream.last_reported_soc: the scan of reversed(_event_stream).
RECURSIVE last_reported_soc_from(_, _)
last_reported_soc_from(es, n) ==
    IF n = 0 THEN None
    ELSE IF es[n].event_type = "REPORT_SOC" THEN es[n]
    ELSE last_reported_soc_from(es, n - 1)

last_reported_soc(es) == last_reported_soc_from(es, Len(es))

\* EventStream.return_soc_events / return_power_draw_events
return_soc_events(es) ==
    SelectSeq(es, LAMBDA e : e.event_type = "REPORT_SOC")

return_power_draw_events(es) ==
    SelectSeq(es, LAMBDA e : e.event_type = "REPORT_POWER_DRAW")

----------------------------------------------------------------------------
\* User (src/_user.py).

\* User.__init__ on top of UserArchetype.__init__: the archetypes are built
\* on day 0, with the simulator's start time as the user's clock.
User__init__(cfg, now) ==
    LET plug_in_datetime == combine(0, cfg.plug_in_time_hr) IN
    [name |-> cfg.name,
     battery_kwh |-> cfg.battery_kwh,
     charger_kw |-> cfg.charger_kw,
     plug_in_datetime |-> plug_in_datetime,
     plug_out_datetime |->
         _calculate_plug_out_datetime(plug_in_datetime, cfg.plug_out_time_hr),
     target_soc_pcnt |-> cfg.target_soc_pcnt,
     plug_in_soc_pcnt |-> cfg.plug_in_soc_pcnt,
     current_time |-> now,
     event_stream |-> <<SocEvent("REPORT_SOC", now, cfg.plug_in_soc_pcnt)>>,
     is_charging |-> FALSE,
     current_charge_pcnt |-> cfg.plug_in_soc_pcnt]

\* The result of a call that may raise: exc is "none" or the exception's
\* class, user the object as the call left it.
Returned(u) == [exc |-> "none", user |-> u]

Raised(exc, u) == [exc |-> exc, user |-> u]

\* should_be_charging with <= for < in the comparison with the target.
should_be_charging_up_to_target(u) ==
    IF u.target_soc_pcnt.type # "number"
    THEN [exc |-> "TypeError", value |-> FALSE]
    ELSE [exc |-> "none",
          value |-> /\ u.plug_in_datetime <= u.current_time
                    /\ u.current_time <= u.plug_out_datetime
                    /\ u.current_charge_pcnt <= u.target_soc_pcnt.value]

\* should_be_charging with the plug window taken on every day of the run.
should_be_charging_every_day(u) ==
    IF u.target_soc_pcnt.type # "number"
    THEN [exc |-> "TypeError", value |-> FALSE]
    ELSE [exc |-> "none",
          value |-> /\ \E d \in 0..NumDays :
                          /\ u.plug_in_datetime + d * MinutesPerDay <= u.current_time
                          /\ u.current_time <= u.plug_out_datetime + d * MinutesPerDay
                    /\ u.current_charge_pcnt < u.target_soc_pcnt.value]

\* should_be_charging without the comparison of the SOC with the target.
should_be_charging_any_soc(u) ==
    IF u.target_soc_pcnt.type # "number"
    THEN [exc |-> "TypeError", value |-> FALSE]
    ELSE [exc |-> "none",
          value |-> /\ u.plug_in_datetime <= u.current_time
                    /\ u.current_time <= u.plug_out_datetime]

\* should_be_charging with the plug-out instant excluded from the window.
should_be_charging_exclusive(u) ==
    IF u.target_soc_pcnt.type # "number"
    THEN [exc |-> "TypeError", value |-> FALSE]
    ELSE [exc |-> "none",
          value |-> /\ u.plug_in_datetime <= u.current_time
                    /\ u.current_time < u.plug_out_datetime
                    /\ u.current_charge_pcnt < u.target_soc_pcnt.value]

\* User.should_be_charging: a comparison with a null target raises.
should_be_charging(u) ==
    LET time_to_charge ==
            u.plug_in_datetime <= u.current_time
            /\ u.current_time <= u.plug_out_datetime
    IN  IF u.target_soc_pcnt.type # "number"
        THEN [exc |-> "TypeError", value |-> FALSE]
        ELSE LET battery_less_than_target ==
                     u.current_charge_pcnt < u.target_soc_pcnt.value
             IN  [exc |-> "none",
                  value |-> time_to_charge /\ battery_less_than_target]

\* start_charging without the REPORT_SOC event that follows START_CHARGING.
start_charging_no_report(u) ==
    IF u.is_charging
    THEN u
    ELSE [u EXCEPT
            !.is_charging = TRUE,
            !.event_stream =
                append_start_charging(u.event_stream, u.current_time,
                                      u.current_charge_pcnt)]

\* start_charging without its `if self.is_charging: return`.
start_charging_unguarded(u) ==
    [u EXCEPT
        !.is_charging = TRUE,
        !.event_stream =
            append_report_soc(
                append_start_charging(u.event_stream, u.current_time,
                                      u.current_charge_pcnt),
                u.current_time, u.current_charge_pcnt)]

\* User.start_charging
start_charging(u) ==
    IF u.is_charging
    THEN u
    ELSE [u EXCEPT
            !.is_charging = TRUE,
            !.event_stream =
                append_report_soc(
                    append_start_charging(u.event_stream, u.current_time,
                                          u.current_charge_pcnt),
                    u.current_time, u.current_charge_pcnt)]

\* stop_charging without the REPORT_SOC event that follows STOP_CHARGING.
stop_charging_no_report(u) ==
    IF ~u.is_charging
    THEN u
    ELSE [u EXCEPT
            !.is_charging = FALSE,
            !.event_stream =
                append_stop_charging(u.event_stream, u.current_time,
                                     u.current_charge_pcnt)]

\* User.stop_charging
stop_charging(u) ==
    IF ~u.is_charging
    THEN u
    ELSE [u EXCEPT
            !.is_charging = FALSE,
            !.event_stream =
                append_report_soc(
                    append_stop_charging(u.event_stream, u.current_time,
                                         u.current_charge_pcnt),
                    u.current_time, u.current_charge_pcnt)]

\* math.tanh, argument and value in thousandths: the Pade approximant
\* x (15 + x^2) / (15 + 6 x^2), within 0.0004 of tanh for |x| <= 1.
tanh(x) ==
    (x * (15000 + (x * x) \div 1000)) \div (15000 + (6 * x * x) \div 1000)

\* _current_charger_kw with tanh taken of the charge, not of 1 - charge.
_current_charger_kw_not_inverted(u) ==
    (u.charger_kw * (tanh(u.current_charge_pcnt) + 1000)) \div 2

\* User._current_charger_kw, in watts.
_current_charger_kw(u) ==
    LET inverted_charge == 1000 - u.current_charge_pcnt
        tanh_output == tanh(inverted_charge)
    IN  (u.charger_kw * (tanh_output + 1000)) \div 2

\* timedelta.total_seconds()
total_seconds(delta) == 60 * delta

\* _update_soc without its `if self.is_charging`: energy is added whether
\* or not the user is charging.
_update_soc_always(u) ==
    LET last == last_reported_soc(u.event_stream) IN
    IF last = None THEN Raised("AttributeError", u)
    ELSE IF u.battery_kwh = 0 THEN Raised("ZeroDivisionError", u)
    ELSE Returned([u EXCEPT !.current_charge_pcnt =
             @ + (_current_charger_kw(u)
                    * total_seconds(u.current_time - last.timestamp))
                 \div (3600 * u.battery_kwh)])

\* _update_soc with `-=` for `+=`.
_update_soc_subtract(u) ==
    LET last == last_reported_soc(u.event_stream) IN
    IF last = None THEN Raised("AttributeError", u)
    ELSE IF ~u.is_charging THEN Returned(u)
    ELSE IF u.battery_kwh = 0 THEN Raised("ZeroDivisionError", u)
    ELSE Returned([u EXCEPT !.current_charge_pcnt =
             @ - (_current_charger_kw(u)
                    * total_seconds(u.current_time - last.timestamp))
                 \div (3600 * u.battery_kwh)])

\* _update_soc that skips the update of a user without battery instead of
\* dividing by zero.
_update_soc_guarded(u) ==
    LET last == last_reported_soc(u.event_stream) IN
    IF last = None THEN Raised("AttributeError", u)
    ELSE IF ~u.is_charging \/ u.battery_kwh = 0 THEN Returned(u)
    ELSE Returned([u EXCEPT !.current_charge_pcnt =
             @ + (_current_charger_kw(u)
                    * total_seconds(u.current_time - last.timestamp))
                 \div (3600 * u.battery_kwh)])

\* User._update_soc
_update_soc(u) ==
    LET last == last_reported_soc(u.event_stream) IN
    IF last = None THEN Raised("AttributeError", u)
    ELSE
    LET time_since_last_report == u.current_time - last.timestamp IN
    IF u.is_charging
    THEN IF u.battery_kwh = 0
         THEN Raised("ZeroDivisionError", u)
         ELSE Returned([u EXCEPT !.current_charge_pcnt =
                  @ + (_current_charger_kw(u)
                         * total_seconds(time_since_last_report))
                      \div (3600 * u.battery_kwh)])
    ELSE Returned(u)

\* update_and_report_soc with the charge status reported before the SOC.
update_and_report_soc_status_first(u) ==
    LET r == _update_soc(u) IN
    IF r.exc # "none" THEN r
    ELSE
    LET u1 == r.user
        es1 == append_report_charge_status(u1.event_stream, u1.current_time,
                                           u1.is_charging)
        es2 == append_report_soc(es1, u1.current_time,
                                 u1.current_charge_pcnt)
        es3 == IF u1.is_charging
               THEN append_report_power_draw(es2, u1.current_time,
                                             _current_charger_kw(u1))
               ELSE es2
    IN  Returned([u1 EXCEPT !.event_stream = es3])

\* update_and_report_soc with the SOC reported before _update_soc is
\* called.
update_and_report_soc_report_first(u) ==
    LET u0 == [u EXCEPT !.event_stream =
                   append_report_soc(@, u.current_time, u.current_charge_pcnt)]
        r == _update_soc(u0)
    IN  IF r.exc # "none" THEN r
        ELSE
        LET u1 == r.user
            es2 == append_report_charge_status(u1.event_stream,
                                               u1.current_time, u1.is_charging)
            es3 == IF u1.is_charging
                   THEN append_report_power_draw(es2, u1.current_time,
                                                 _current_charger_kw(u1))
                   ELSE es2
        IN  Returned([u1 EXCEPT !.event_stream = es3])

\* update_and_report_soc reading _current_charger_kw before _update_soc.
update_and_report_soc_power_first(u) ==
    LET r == _update_soc(u) IN
    IF r.exc # "none" THEN r
    ELSE
    LET u1 == r.user
        es1 == append_report_soc(u1.event_stream, u1.current_time,
                                 u1.current_charge_pcnt)
        es2 == append_report_charge_status(es1, u1.current_time,
                                           u1.is_charging)
        es3 == IF u1.is_charging
               THEN append_report_power_draw(es2, u1.current_time,
                                             _current_charger_kw(u))
               ELSE es2
    IN  Returned([u1 EXCEPT !.event_stream = es3])

\* User.update_and_report_soc
update_and_report_soc(u) ==
    LET r == _update_soc(u) IN
    IF r.exc # "none" THEN r
    ELSE
    LET u1 == r.user
        es1 == append_report_soc(u1.event_stream, u1.current_time,
                                 u1.current_charge_pcnt)
        es2 == append_report_charge_status(es1, u1.current_time,
                                           u1.is_charging)
        es3 == IF u1.is_charging
               THEN append_report_power_draw(es2, u1.current_time,
                                             _current_charger_kw(u1))
               ELSE es2
    IN  Returned([u1 EXCEPT !.event_stream = es3])

----------------------------------------------------------------------------
\* UserController (src/_user_controller.py).

\* update_charge_status without its elif branch: a user is never stopped.
update_charge_status_body_never_stops(u, t) ==
    LET u1 == [u EXCEPT !.current_time = t]
        s == should_be_charging(u1)
    IN  IF s.exc # "none" THEN Raised(s.exc, u1)
        ELSE IF s.value THEN Returned(start_charging(u1))
        ELSE Returned(u1)

\* The try body of one iteration of update_charge_status.
update_charge_status_body(u, t) ==
    LET u1 == [u EXCEPT !.current_time = t]
        s == should_be_charging(u1)
    IN  IF s.exc # "none" THEN Raised(s.exc, u1)
        ELSE IF s.value THEN Returned(start_charging(u1))
        ELSE IF ~s.value /\ u1.is_charging THEN Returned(stop_charging(u1))
        ELSE Returned(u1)

\* The try body of one iteration of update_soc.
update_soc_body(u, t) ==
    update_and_report_soc([u EXCEPT !.current_time = t])

\* The classes `except Exception` catches.
ExceptionClasses == {"ZeroDivisionError", "TypeError", "AttributeError"}

\* `except Exception as e`: whether the handler takes the exception.
except_Exception(exc) == exc \in ExceptionClasses

\* `break` for `continue` in the handler: the loop is left.
break_loop(i) == NumUsers + 1

\* `continue` in the handler: the loop goes on with the next user.
continue_loop(i) == i + 1

\* A controller iteration on a population whose entries are all one shared
\* object (a list built without copy.deepcopy): what is done to the user at
\* idx shows in every entry.
ControllerIteration_shared(op, r) ==
    /\ users' = [i \in DOMAIN users |-> r.user]
    /\ IF r.exc = "none"
       THEN /\ idx' = idx + 1
            /\ UNCHANGED <<pc, error_log>>
       ELSE /\ error_log' = Append(error_log,
                [op |-> op, user |-> idx, time |-> current_time, exc |-> r.exc])
            /\ idx' = idx + 1
            /\ UNCHANGED pc
    /\ UNCHANGED <<start_time, current_time, end_time, td, loader>>

\* One iteration of a controller loop with try body `body`, on user idx.
\* An exception the handler does not take leaves run().
ControllerIteration(op, r) ==
    /\ users' = [users EXCEPT ![idx] = r.user]
    /\ IF r.exc = "none"
       THEN /\ idx' = idx + 1
            /\ UNCHANGED <<pc, error_log>>
       ELSE IF except_Exception(r.exc)
       THEN /\ error_log' = Append(error_log,
                [op |-> op, user |-> idx, time |-> current_time, exc |-> r.exc])
            /\ idx' = continue_loop(idx)
            /\ UNCHANGED pc
       ELSE /\ pc' = "raised"
            /\ UNCHANGED <<idx, error_log>>
    /\ UNCHANGED <<start_time, current_time, end_time, td, loader>>

----------------------------------------------------------------------------
\* Simulator (src/_simulator.py).

\* _load_population_of_users has returned: its locals are gone.
Loaded ==
    [config |-> <<>>, population_arg |-> 0, users |-> <<>>,
     population |-> <<>>, exc |-> "none"]

Init ==
    /\ loader = Loaded
    /\ start_time \in StartTimes
    /\ current_time = start_time
    /\ end_time = start_time + Horizon
    /\ td \in Ticks
    /\ users \in [1..NumUsers -> {User__init__(c, start_time) : c \in Configs}]
    /\ pc = "run"
    /\ idx = 1
    /\ error_log = <<>>

\* _step() with update_charge_status called before update_soc.
_step_decision_first == <<"update_charge_status", "update_soc">>

\* Simulator._step: the two controller operations it calls, in order.
_step == <<"update_soc", "update_charge_status">>

\* run()'s loop test with <= for <.
run_loop_test_inclusive == current_time <= end_time

\* run(): the test of its while loop.
run_loop_test == current_time < end_time

\* run(): the loop test holds, _step() calls update_soc.
EnterStep ==
    /\ pc = "run"
    /\ run_loop_test
    /\ pc' = _step[1]
    /\ idx' = 1
    /\ UNCHANGED <<users, start_time, current_time, end_time, td, error_log, loader>>

\* update_soc: one iteration of its loop.
UpdateSocUser ==
    /\ pc = "update_soc"
    /\ idx <= NumUsers
    /\ ControllerIteration("update_soc",
                           update_soc_body(users[idx], current_time))

\* update_soc returns, _step() calls update_charge_status.
UpdateSocReturn ==
    /\ pc = _step[1]
    /\ idx > NumUsers
    /\ pc' = _step[2]
    /\ idx' = 1
    /\ UNCHANGED <<users, start_time, current_time, end_time, td, error_log, loader>>

\* update_charge_status: one iteration of its loop.
UpdateChargeStatusUser ==
    /\ pc = "update_charge_status"
    /\ idx <= NumUsers
    /\ ControllerIteration("update_charge_status",
                           update_charge_status_body(users[idx], current_time))

\* update_charge_status and _step() return, run() advances the clock.
LeaveStep ==
    /\ pc = _step[2]
    /\ idx > NumUsers
    /\ current_time' = current_time + td
    /\ pc' = "run"
    /\ idx' = 1
    /\ UNCHANGED <<users, start_time, end_time, td, error_log, loader>>

\* run(): the loop test fails, the loop is left for the plots.
ExitLoop ==
    /\ pc = "run"
    /\ ~run_loop_test
    /\ pc' = "done"
    /\ UNCHANGED <<users, start_time, current_time, end_time, td, idx, error_log, loader>>

Next ==
    \/ EnterStep
    \/ UpdateSocUser
    \/ UpdateSocReturn
    \/ UpdateChargeStatusUser
    \/ LeaveStep
    \/ ExitLoop

Spec == Init /\ [][Next]_vars

\* The ticks of a long run: 6 and 12 hours.
LongTicks == {360, 720}

\* The state after construction of a run of NumDays days from midnight of
\* the construction day.
InitDays ==
    /\ loader = Loaded
    /\ start_time = 0
    /\ current_time = start_time
    /\ end_time = start_time + NumDays * MinutesPerDay
    /\ td \in LongTicks
    /\ users \in [1..NumUsers ->
                    {User__init__(c, start_time) : c \in Configs \cup {DaytimeConfig}}]
    /\ pc = "run"
    /\ idx = 1
    /\ error_log = <<>>

DaysSpec == InitDays /\ [][Next]_vars

----------------------------------------------------------------------------
\* Simulator._load_population_of_users, step by step.

\* The pcnt_population values of the records of config_json.json.
Shares == {19, 20, 30, 50}

\* The `population` argument of Simulator().
Populations == {1, 3}

\* The archetypes the loaded records describe.
LoadArchetypes == {c \in Configs : c.name \in {"regular", "overnight"}}

\* What json.load returns: one record per archetype.
LoadConfigs ==
    [1..NumUsers -> [cfg : LoadArchetypes, pcnt_population : Shares]]

\* sum([user.pcnt_population for user in users])
RECURSIVE sum_pcnt_population(_)
sum_pcnt_population(us) ==
    IF us = <<>> THEN 0
    ELSE us[1].pcnt_population + sum_pcnt_population(Tail(us))

\* The sanity check with <= for ==.
sanity_check_at_most(us) == sum_pcnt_population(us) <= 100

\* assert 100 == sum([user.pcnt_population for user in users])
sanity_check(us) == 100 = sum_pcnt_population(us)

\* math.ceil(self.population * (user.pcnt_population / 100))
n_users(population_arg, pcnt_population) ==
    (population_arg * pcnt_population + 99) \div 100

\* [copy.deepcopy(user) for _ in range(n)]
to_add(user, n) == [k \in 1..n |-> user]

\* The state when Simulator.__init__ calls _load_population_of_users.
InitLoad ==
    /\ start_time \in StartTimes
    /\ current_time = start_time
    /\ end_time = start_time + Horizon
    /\ td \in Ticks
    /\ users = <<>>
    /\ pc = "load"
    /\ idx = 1
    /\ error_log = <<>>
    /\ loader \in {[config |-> c, population_arg |-> p, users |-> <<>>,
                     population |-> <<>>, exc |-> "none"] :
                        c \in LoadConfigs, p \in Populations}

\* for user_config in config[:]: users.append(User(...))
LoadBuildUser ==
    /\ pc = "load"
    /\ idx <= Len(loader.config)
    /\ loader' = [loader EXCEPT !.users =
           Append(@, [user |-> User__init__(loader.config[idx].cfg, current_time),
                      pcnt_population |-> loader.config[idx].pcnt_population])]
    /\ idx' = idx + 1
    /\ UNCHANGED <<users, start_time, current_time, end_time, td, pc, error_log>>

\* The assert after the loop: it passes, or AssertionError leaves __init__.
LoadSanityCheck ==
    /\ pc = "load"
    /\ idx > Len(loader.config)
    /\ IF sanity_check(loader.users)
       THEN /\ pc' = "duplicate"
            /\ idx' = 1
            /\ UNCHANGED loader
       ELSE /\ pc' = "raised"
            /\ loader' = [loader EXCEPT !.exc = "AssertionError"]
            /\ UNCHANGED idx
    /\ UNCHANGED <<users, start_time, current_time, end_time, td, error_log>>

\* for user in users: population.extend(to_add)
LoadDuplicate ==
    /\ pc = "duplicate"
    /\ idx <= Len(loader.users)
    /\ loader' = [loader EXCEPT !.population =
           @ \o to_add(loader.users[idx].user,
                       n_users(loader.population_arg,
                               loader.users[idx].pcnt_population))]
    /\ idx' = idx + 1
    /\ UNCHANGED <<users, start_time, current_time, end_time, td, pc, error_log>>

\* return UserController(population); the run is followed when the
\* population has NumUsers users.
LoadReturn ==
    /\ pc = "duplicate"
    /\ idx > Len(loader.users)
    /\ IF Len(loader.population) = NumUsers
       THEN /\ users' = [i \in 1..NumUsers |-> loader.population[i]]
            /\ pc' = "run"
            /\ loader' = Loaded
       ELSE /\ pc' = "built"
            /\ UNCHANGED <<users, loader>>
    /\ idx' = 1
    /\ UNCHANGED <<start_time, current_time, end_time, td, error_log>>

NextLoad ==
    \/ LoadBuildUser
    \/ LoadSanityCheck
    \/ LoadDuplicate
    \/ LoadReturn
    \/ Next

LoadSpec == InitLoad /\ [][NextLoad]_vars

\* Lengths end_time - start_time of the simulated range given to Simulator():
\* an end before the start, an empty range, a range that ends between two
\* ticks and one that ends on a tick.
Durations == {0 - Horizon, 0, Horizon \div 4, Horizon}

\* The state after construction for any start_time and end_time, with users
\* that may be plugged in over the whole range.
InitAnyEnd ==
    /\ loader = Loaded
    /\ start_time \in StartTimes
    /\ current_time = start_time
    /\ end_time \in {start_time + d : d \in Durations}
    /\ td \in Ticks
    /\ users \in [1..NumUsers ->
                    {User__init__(c, start_time) : c \in Configs \cup {PluggedConfig}}]
    /\ pc = "run"
    /\ idx = 1
    /\ error_log = <<>>

\* run() is one sequential thread: it always takes its next step.
FairSpec == InitAnyEnd /\ [][Next]_vars /\ WF_vars(Next)

----------------------------------------------------------------------------
\* Helpers of the properties.

\* Number of events of one type in an event stream.
CountType(es, type) == Len(SelectSeq(es, LAMBDA e : e.event_type = type))

\* The events appended to `before` to give `after` (after extends before).
Appended(before, after) == SubSeq(after, Len(before) + 1, Len(after))

IsPrefix(before, after) ==
    /\ Len(before) <= Len(after)
    /\ SubSeq(after, 1, Len(before)) = before

UserIds == 1..NumUsers

\* The current step is an iteration of the named controller loop.
IsIteration(op) == pc = op /\ idx \in UserIds

\* Clocks at and around the edges of u's plug window, and u's own clock.
ProbeTimes(u) ==
    {u.current_time, u.plug_in_datetime - 1, u.plug_in_datetime,
     u.plug_in_datetime + 1, u.plug_out_datetime - 1, u.plug_out_datetime,
     u.plug_out_datetime + 1}

\* Elapsed times since the last report: none, a minute, a tick, the whole run.
ProbeElapsed == {0, 1, td, end_time - start_time}

----------------------------------------------------------------------------
\* C1 (amended).  In every reachable state of every user, two calls of
\* start_charging() in a row leave the user charging, the second call
\* changes nothing (no event, no field), and together they append exactly
\* one START_CHARGING event when the user was not charging before the first
\* call and none when it was already charging.
C1_StartChargingTwice ==
    \A i \in UserIds :
        LET u == users[i]
            once == start_charging(u)
            twice == start_charging(once)
        IN  /\ twice = once
            /\ once.is_charging
            /\ CountType(twice.event_stream, "START_CHARGING")
                 = CountType(u.event_stream, "START_CHARGING")
                   + (IF u.is_charging THEN 0 ELSE 1)

\* C1 as stated: two calls in a row append exactly one START_CHARGING event
\* in total, from any reachable state.
C1_Original ==
    \A i \in UserIds :
        LET u == users[i]
            twice == start_charging(start_charging(u))
        IN  /\ twice = start_charging(u)
            /\ twice.is_charging
            /\ CountType(twice.event_stream, "START_CHARGING")
                 = CountType(u.event_stream, "START_CHARGING") + 1

\* The controller has called start_charging() on a user at two ticks in a
\* row: the user started at an earlier tick, is still charging after this
\* tick's decision, and its log holds one START_CHARGING event; another
\* user has not started yet.
C1_Witness ==
    /\ pc = "update_charge_status"
    /\ \E i \in UserIds :
        /\ idx > i
        /\ users[i].is_charging
        /\ CountType(users[i].event_stream, "START_CHARGING") = 1
        /\ \E n \in DOMAIN users[i].event_stream :
            /\ users[i].event_stream[n].event_type = "START_CHARGING"
            /\ users[i].event_stream[n].timestamp < users[i].current_time
    /\ \E j \in UserIds :
        /\ ~users[j].is_charging
        /\ CountType(users[j].event_stream, "START_CHARGING") = 0

\* C2.  stop_charging() on a user that is not charging changes nothing; on
\* a charging user it clears is_charging and appends a STOP_CHARGING then a
\* REPORT_SOC event, both with the user's clock and SOC, and changes no
\* other field (current_charge_pcnt in particular).
C2_StopCharging ==
    \A i \in UserIds :
        LET u == users[i]
            s == stop_charging(u)
            new == Appended(u.event_stream, s.event_stream)
        IN  IF ~u.is_charging
            THEN s = u
            ELSE /\ ~s.is_charging
                 /\ IsPrefix(u.event_stream, s.event_stream)
                 /\ Len(new) = 2
                 /\ new[1].event_type = "STOP_CHARGING"
                 /\ new[2].event_type = "REPORT_SOC"
                 /\ \A k \in 1..2 :
                      /\ new[k].timestamp = u.current_time
                      /\ new[k].soc_pcnt = u.current_charge_pcnt
                 /\ s.current_charge_pcnt = u.current_charge_pcnt
                 /\ [s EXCEPT !.event_stream = u.event_stream,
                              !.is_charging = TRUE] = u

\* A user the controller has just stopped (its log ends with the two events
\* of stop_charging, at its clock), beside a user that is still charging.
C2_Witness ==
    /\ \E i \in UserIds :
        LET es == users[i].event_stream IN
        /\ ~users[i].is_charging
        /\ Len(es) >= 2
        /\ es[Len(es) - 1].event_type = "STOP_CHARGING"
        /\ es[Len(es)].event_type = "REPORT_SOC"
        /\ es[Len(es)].timestamp = users[i].current_time
    /\ \E j \in UserIds : users[j].is_charging

\* C3.  For a user with a numeric target, should_be_charging is true
\* exactly when plug_in_datetime <= current_time <= plug_out_datetime (both
\* ends included) and current_charge_pcnt < target_soc_pcnt (strictly), at
\* the user's clock and at clocks around the edges of its window; and an
\* iteration of update_charge_status, which evaluates it, leaves the SOC
\* alone, leaves is_charging and the log alone unless it switches the
\* state, and leaves the clock at the time the controller set.
C3_Value ==
    \A i \in UserIds : \A t \in ProbeTimes(users[i]) :
        LET u == [users[i] EXCEPT !.current_time = t]
            r == should_be_charging(u)
        IN  u.target_soc_pcnt.type = "number" =>
              /\ r.exc = "none"
              /\ r.value <=>
                   /\ ~(t < u.plug_in_datetime)
                   /\ ~(t > u.plug_out_datetime)
                   /\ ~(u.current_charge_pcnt >= u.target_soc_pcnt.value)

C3_Frame ==
    IsIteration("update_charge_status") =>
        LET u == users[idx]
            v == users'[idx]
        IN  /\ v.current_charge_pcnt = u.current_charge_pcnt
            /\ v.current_time = current_time
            /\ v.is_charging = u.is_charging
                 => v.event_stream = u.event_stream

C3_ShouldBeCharging == [](C3_Value) /\ [][C3_Frame]_vars

\* The predicate has been evaluated with the clock on the first and on the
\* last instant of the window and held: one user started exactly at its
\* plug-in instant, and a user below target is charging with its clock
\* exactly at its plug-out instant after this tick's decision.
C3_Witness ==
    /\ pc = "update_charge_status"
    /\ \E i \in UserIds :
        /\ idx > i
        /\ users[i].is_charging
        /\ users[i].current_time = users[i].plug_out_datetime
        /\ \E n \in DOMAIN users[i].event_stream :
            /\ users[i].event_stream[n].event_type = "START_CHARGING"
            /\ users[i].event_stream[n].timestamp = users[i].plug_in_datetime

\* C4.  Every iteration of update_soc that raises nothing appends to the
\* user's log, in this order and all with the tick's time, one REPORT_SOC
\* event carrying the SOC after the update and one REPORT_CHARGE_STATUS
\* event carrying is_charging, followed by one REPORT_POWER_DRAW event if
\* and only if the user is charging: 2 events for a user that is not
\* charging, 3 for a charging one.
C4_Step ==
    (IsIteration("update_soc") /\ error_log' = error_log) =>
        LET u == users[idx]
            v == users'[idx]
            new == Appended(u.event_stream, v.event_stream)
        IN  /\ IsPrefix(u.event_stream, v.event_stream)
            /\ v.is_charging = u.is_charging
            /\ Len(new) = (IF u.is_charging THEN 3 ELSE 2)
            /\ new[1] = [event_type |-> "REPORT_SOC",
                         timestamp |-> current_time,
                         soc_pcnt |-> v.current_charge_pcnt]
            /\ new[2] = [event_type |-> "REPORT_CHARGE_STATUS",
                         timestamp |-> current_time,
                         is_charging |-> u.is_charging]
            /\ u.is_charging =>
                 /\ new[3].event_type = "REPORT_POWER_DRAW"
                 /\ new[3].timestamp = current_time

C4_ReportTick == [][C4_Step]_vars

\* update_soc has just gone through the population at a tick after the
\* first: the log of a charging user ends with the three events of that
\* tick, the log of a user that is not charging with the two.
C4_Witness ==
    /\ pc = "update_soc"
    /\ idx > NumUsers
    /\ current_time > start_time
    /\ \E i \in UserIds :
        LET es == users[i].event_stream IN
        /\ users[i].is_charging
        /\ Len(es) >= 3
        /\ es[Len(es)].event_type = "REPORT_POWER_DRAW"
        /\ es[Len(es) - 2].event_type = "REPORT_SOC"
        /\ es[Len(es) - 2].timestamp = current_time
    /\ \E j \in UserIds :
        LET es == users[j].event_stream IN
        /\ ~users[j].is_charging
        /\ es[Len(es)].event_type = "REPORT_CHARGE_STATUS"
        /\ es[Len(es)].timestamp = current_time
        /\ es[Len(es) - 1].event_type = "REPORT_SOC"

\* C5.  For every user that is not charging, _update_soc() raises nothing
\* and leaves current_charge_pcnt, the log and every other field as they
\* are, whatever time has passed since the last REPORT_SOC event.
C5_NotChargingUnchanged ==
    \A i \in UserIds : \A d \in ProbeElapsed :
        LET last == last_reported_soc(users[i].event_stream)
            u == [users[i] EXCEPT !.current_time = last.timestamp + d]
            r == _update_soc(u)
        IN  ~u.is_charging =>
              /\ r.exc = "none"
              /\ r.user.current_charge_pcnt = u.current_charge_pcnt
              /\ r.user.event_stream = u.event_stream
              /\ r.user = u

\* A user that is not charging has been through update_soc a whole tick
\* after its last report, beside a user that is charging.
C5_Witness ==
    /\ pc = "update_soc"
    /\ idx > NumUsers
    /\ \E i \in UserIds :
        LET es == users[i].event_stream IN
        /\ ~users[i].is_charging
        /\ Len(es) >= 3
        /\ es[Len(es) - 1].event_type = "REPORT_SOC"
        /\ es[Len(es) - 1].timestamp = current_time
        /\ last_reported_soc(SubSeq(es, 1, Len(es) - 2)).timestamp
             = current_time - td
    /\ \E j \in UserIds : users[j].is_charging

\* C6.  For every charging user with battery_kwh > 0 and charger_kw > 0,
\* _update_soc() raises nothing and leaves current_charge_pcnt greater than
\* or equal to what it was, for every elapsed time >= 0 since the last
\* REPORT_SOC event; with no time elapsed it is exactly unchanged.
C6_ChargingMonotonic ==
    \A i \in UserIds : \A d \in ProbeElapsed :
        LET last == last_reported_soc(users[i].event_stream)
            u == [users[i] EXCEPT !.current_time = last.timestamp + d]
            r == _update_soc(u)
        IN  (u.is_charging /\ u.battery_kwh > 0 /\ u.charger_kw > 0) =>
              /\ r.exc = "none"
              /\ r.user.current_charge_pcnt >= u.current_charge_pcnt
              /\ d = 0 => r.user.current_charge_pcnt = u.current_charge_pcnt

\* A charging user whose SOC update_soc has raised above the SOC with which
\* it started.
C6_Witness ==
    \E i \in UserIds :
        /\ users[i].is_charging
        /\ users[i].battery_kwh > 0
        /\ users[i].current_charge_pcnt > users[i].plug_in_soc_pcnt
        /\ users[i].current_time
             = last_reported_soc(users[i].event_stream).timestamp

\* C7.  After an iteration of update_charge_status(t) that raises nothing,
\* the user's clock is t and is_charging is the value of should_be_charging
\* at t; when is_charging had that value before, the log is unchanged.
C7_Step ==
    (IsIteration("update_charge_status") /\ error_log' = error_log) =>
        LET u == users[idx]
            v == users'[idx]
            decided == should_be_charging(
                           [u EXCEPT !.current_time = current_time]).value
        IN  /\ v.current_time = current_time
            /\ v.is_charging = decided
            /\ v.is_charging = should_be_charging(v).value
            /\ u.is_charging = decided => v.event_stream = u.event_stream

C7_ChargeDecision == [][C7_Step]_vars

\* update_charge_status has gone through a population in which the tick's
\* decision started one user, stopped another or left one as it was.
C7_Witness ==
    /\ pc = "update_charge_status"
    /\ idx > NumUsers
    /\ \E i, j \in UserIds :
        LET ei == users[i].event_stream
            ej == users[j].event_stream
        IN  /\ users[i].is_charging
            /\ ei[Len(ei) - 1].event_type = "START_CHARGING"
            /\ ei[Len(ei) - 1].timestamp = current_time
            /\ ~users[j].is_charging
            /\ ej[Len(ej)].event_type = "REPORT_CHARGE_STATUS"
            /\ ej[Len(ej)].timestamp = current_time

\* The user as User.__init__ made it, recovered from its configuration
\* fields.
Constructed(u) ==
    [u EXCEPT !.current_time = start_time,
              !.event_stream =
                  <<SocEvent("REPORT_SOC", start_time, u.plug_in_soc_pcnt)>>,
              !.is_charging = FALSE,
              !.current_charge_pcnt = u.plug_in_soc_pcnt]

\* Number of ticks the run has completed.
TicksDone == (current_time - start_time) \div td

\* Number of update_soc and of update_charge_status iterations that have
\* been made on user i so far.
SocCalls(i) ==
    TicksDone + (IF \/ pc = "update_charge_status"
                    \/ (pc = "update_soc" /\ idx > i) THEN 1 ELSE 0)

StatusCalls(i) ==
    TicksDone + (IF pc = "update_charge_status" /\ idx > i THEN 1 ELSE 0)

\* A user alone: its state after k controller iterations on it (update_soc
\* and update_charge_status in turn, one pair per tick from start_time on),
\* each leaving it as its try body left it.  AloneFrom makes the iterations
\* j..k on u.
RECURSIVE AloneFrom(_, _, _)
AloneFrom(u, j, k) ==
    IF j > k THEN u
    ELSE LET t == start_time + ((j - 1) \div 2) * td
             r == IF j % 2 = 1
                  THEN update_soc_body(u, t)
                  ELSE update_charge_status_body(u, t)
         IN  IF r.exc \in ExceptionClasses \cup {"none"}
             THEN AloneFrom(r.user, j + 1, k)
             ELSE u

Alone(u0, k) == AloneFrom(u0, 1, k)

\* C8.  No exception leaves a controller operation (run() is never left by
\* an exception); at every point of a run every user is exactly what it
\* would be had it been stepped alone, whatever the other users raised
\* before or after it in the loops; and the run ends only with the clock
\* at or past end_time, every tick made.
C8_FailureIsolation ==
    /\ pc # "raised"
    /\ \A i \in UserIds :
        users[i] = Alone(Constructed(users[i]), SocCalls(i) + StatusCalls(i))
    /\ pc = "done" =>
        /\ current_time >= end_time
        /\ current_time - td < end_time

\* A run has ended in which the first user raised in update_soc and the
\* last one in update_charge_status, and the last user still got its tick
\* report at every tick, the last tick included.
C8_Witness ==
    /\ pc = "done"
    /\ NumUsers >= 2
    /\ \E e \in DOMAIN error_log :
        error_log[e].user = 1 /\ error_log[e].op = "update_soc"
    /\ \E e \in DOMAIN error_log :
        /\ error_log[e].user = NumUsers
        /\ error_log[e].op = "update_charge_status"
        /\ error_log[e].time = current_time - td
    /\ LET es == users[NumUsers].event_stream IN
       /\ es[Len(es)].timestamp = current_time - td
       /\ CountType(es, "REPORT_CHARGE_STATUS") = TicksDone

\* The scenario of C9: exactly one user has battery_kwh = 0.
OneFaulty(f) ==
    /\ users[f].battery_kwh = 0
    /\ \A j \in UserIds \ {f} : users[j].battery_kwh > 0

\* The log holds the REPORT_SOC and REPORT_CHARGE_STATUS events of a tick
\* report made at time t.
HasTickReport(es, t) ==
    \E n \in 1..(Len(es) - 1) :
        /\ es[n].event_type = "REPORT_SOC"
        /\ es[n].timestamp = t
        /\ es[n + 1].event_type = "REPORT_CHARGE_STATUS"
        /\ es[n + 1].timestamp = t

\* C9 (amended).  In a run where exactly one user has battery_kwh = 0, no
\* exception leaves the run, every other user has the REPORT_SOC and
\* REPORT_CHARGE_STATUS events of every tick made so far, and the faulty
\* user's log holds no REPORT_POWER_DRAW event and no tick report made
\* while it was charging.  Its log does hold REPORT_SOC events other than
\* the initial one: each is part of a tick report made while it was not
\* charging or follows the START_CHARGING or STOP_CHARGING event of a
\* state change, and there is one as soon as it has started charging.
C9_FaultyUser ==
    \A f \in UserIds : OneFaulty(f) =>
        LET es == users[f].event_stream IN
        /\ pc # "raised"
        /\ \A j \in UserIds \ {f} :
            /\ CountType(users[j].event_stream, "REPORT_CHARGE_STATUS")
                 = SocCalls(j)
            /\ \A m \in 0..(SocCalls(j) - 1) :
                 HasTickReport(users[j].event_stream, start_time + m * td)
        /\ CountType(es, "REPORT_POWER_DRAW") = 0
        /\ \A n \in DOMAIN es :
             es[n].event_type = "REPORT_CHARGE_STATUS" => ~es[n].is_charging
        /\ \A n \in DOMAIN es :
             (n > 1 /\ es[n].event_type = "REPORT_SOC") =>
                \/ /\ n < Len(es)
                   /\ es[n + 1] = ChargeStatusEvent(es[n].timestamp, FALSE)
                \/ /\ es[n - 1].event_type \in {"START_CHARGING", "STOP_CHARGING"}
                   /\ es[n - 1].timestamp = es[n].timestamp
        /\ CountType(es, "START_CHARGING") >= 1
             => CountType(es, "REPORT_SOC") >= 2

\* C9 as stated: the log of the faulty user, which has a window in which it
\* charges, holds no REPORT_SOC event but the initial one and no
\* REPORT_POWER_DRAW event.
C9_Original ==
    \A f \in UserIds :
        (OneFaulty(f)
         /\ CountType(users[f].event_stream, "START_CHARGING") >= 1) =>
            /\ CountType(users[f].event_stream, "REPORT_SOC") = 1
            /\ CountType(users[f].event_stream, "REPORT_POWER_DRAW") = 0

\* A run has ended in which the one faulty user started charging, failed
\* its tick reports while charging, and the other user charged and has a
\* report of the last tick.
C9_Witness ==
    /\ pc = "done"
    /\ \E f \in UserIds :
        /\ OneFaulty(f)
        /\ CountType(users[f].event_stream, "START_CHARGING") = 1
        /\ \E e \in DOMAIN error_log :
            error_log[e].user = f /\ error_log[e].exc = "ZeroDivisionError"
        /\ \E j \in UserIds \ {f} :
            /\ CountType(users[j].event_stream, "REPORT_POWER_DRAW") >= 1
            /\ HasTickReport(users[j].event_stream, current_time - td)

\* The current step is a controller iteration whose try body raised.
RaisingIteration ==
    /\ IsIteration("update_soc") \/ IsIteration("update_charge_status")
    /\ error_log' # error_log

\* C10 (amended).  When a controller iteration on a user raises at tick t,
\* the user is afterwards what it was before except for its clock, which
\* is t: no event of that tick is appended, current_charge_pcnt and
\* is_charging are unchanged, and no other user is touched.
C10_Step ==
    RaisingIteration =>
        /\ users'[idx] = [users[idx] EXCEPT !.current_time = current_time]
        /\ \A j \in UserIds \ {idx} : users'[j] = users[j]

C10_FailedIterationKeepsState == [][C10_Step]_vars

\* C10 as stated: after the failing iteration the user, its clock
\* included, is exactly what it was before.
C10_OriginalStep == RaisingIteration => users'[idx] = users[idx]

C10_Original == [][C10_OriginalStep]_vars

\* An iteration of update_soc has just raised on a charging user: the
\* user's clock is the tick's time, later than every event of its log.
C10_Witness ==
    /\ pc = "update_soc"
    /\ error_log # <<>>
    /\ LET e == error_log[Len(error_log)]
           u == users[e.user]
       IN  /\ idx = e.user + 1
           /\ e.time = current_time
           /\ u.is_charging
           /\ u.current_time = current_time
           /\ \A n \in DOMAIN u.event_stream :
                u.event_stream[n].timestamp < current_time

\* The controller has logged an error of operation op on user i at time t.
ErrorLogged(op, i, t) ==
    \E e \in DOMAIN error_log :
        /\ error_log[e].op = op
        /\ error_log[e].user = i
        /\ error_log[e].time = t

\* update_soc(t) has been made on user i: its clock is t or later and its
\* log has the tick report of t, or the iteration raised.
SocDone(i, t) ==
    \/ HasTickReport(users[i].event_stream, t)
    \/ ErrorLogged("update_soc", i, t)

\* A trace of update_charge_status(t) on user i: a state change at t or a
\* logged error.
DecisionSeen(i, t) ==
    \/ ErrorLogged("update_charge_status", i, t)
    \/ \E n \in DOMAIN users[i].event_stream :
        /\ users[i].event_stream[n].event_type
             \in {"START_CHARGING", "STOP_CHARGING"}
        /\ users[i].event_stream[n].timestamp = t

\* In a log, a START_CHARGING or STOP_CHARGING event of time t is followed
\* by no event of time t but the REPORT_SOC event appended with it.
ReportsPrecedeStateChange(es) ==
    \A m, n \in DOMAIN es :
        (/\ m < n
         /\ es[m].event_type \in {"START_CHARGING", "STOP_CHARGING"}
         /\ es[n].timestamp = es[m].timestamp)
        => (n = m + 1 /\ es[n].event_type = "REPORT_SOC")

\* C11.  Within a tick, update_soc(current_time) has been made on every
\* user before update_charge_status(current_time) is made on any, and
\* current_time grows, by td, only after both have gone through the whole
\* population; so in every log the tick report events of a time t precede
\* the START_CHARGING or STOP_CHARGING event of time t.
C11_Order ==
    /\ pc = "update_charge_status" =>
         \A i \in UserIds :
            /\ users[i].current_time = current_time
            /\ SocDone(i, current_time)
    /\ pc = "update_soc" =>
         \A i \in UserIds :
            /\ ~DecisionSeen(i, current_time)
            /\ i < idx => SocDone(i, current_time)
            /\ i >= idx => ~SocDone(i, current_time)
    /\ \A i \in UserIds : ReportsPrecedeStateChange(users[i].event_stream)

C11_Clock ==
    current_time' # current_time =>
        /\ current_time' = current_time + td
        /\ pc = "update_charge_status"
        /\ idx > NumUsers
        /\ \A i \in UserIds :
            /\ SocDone(i, current_time)
            /\ users[i].target_soc_pcnt.type = "number" =>
                 users[i].is_charging = should_be_charging(users[i]).value
            /\ users[i].target_soc_pcnt.type # "number" =>
                 ErrorLogged("update_charge_status", i, current_time)

C11_StepOrder == [](C11_Order) /\ [][C11_Clock]_vars

\* A tick after the first has been through both operations: a user's log
\* has the tick report of current_time followed by the START_CHARGING event
\* of current_time, beside a user that was reported and is not charging.
C11_Witness ==
    /\ pc = "update_charge_status"
    /\ idx > NumUsers
    /\ current_time > start_time
    /\ \E i \in UserIds :
        LET es == users[i].event_stream IN
        /\ Len(es) >= 4
        /\ es[Len(es) - 1].event_type = "START_CHARGING"
        /\ es[Len(es) - 1].timestamp = current_time
        /\ es[Len(es) - 2].event_type = "REPORT_CHARGE_STATUS"
        /\ es[Len(es) - 2].timestamp = current_time
    /\ \E j \in UserIds : ~users[j].is_charging /\ SocDone(j, current_time)

\* The REPORT_CHARGE_STATUS event of time t in a log, None when the log has
\* none.
StatusReportAt(es, t) ==
    IF \E n \in DOMAIN es :
          es[n].event_type = "REPORT_CHARGE_STATUS" /\ es[n].timestamp = t
    THEN es[CHOOSE n \in DOMAIN es :
                es[n].event_type = "REPORT_CHARGE_STATUS" /\ es[n].timestamp = t]
    ELSE None

\* C12 (amended).  The is_charging value with which update_soc(t) updates
\* and reports a user is the one left by the charge decision of the tick
\* before, t - td (FALSE at the first tick), the decision of t being made
\* after it: the SOC grows in the update of t only if that value is TRUE,
\* a session started at t is reported as not charging in the tick report
\* of t and as charging in the next one, and a session stopped at t is
\* still reported as charging, with its power draw, in the report of t.
C12_Step ==
    (IsIteration("update_soc") /\ error_log' = error_log) =>
        LET u == users[idx]
            v == users'[idx]
            status == StatusReportAt(v.event_stream, current_time)
        IN  /\ status # None
            /\ status.is_charging = u.is_charging
            /\ current_time = start_time => ~u.is_charging
            /\ current_time > start_time =>
                 /\ u.current_time = current_time - td
                 /\ u.target_soc_pcnt.type = "number" =>
                      u.is_charging = should_be_charging(u).value
                 /\ u.target_soc_pcnt.type # "number" => ~u.is_charging
            /\ v.current_charge_pcnt # u.current_charge_pcnt => u.is_charging

C12_Logs ==
    \A i \in UserIds :
        LET es == users[i].event_stream IN
        \A n \in DOMAIN es :
            /\ es[n].event_type = "START_CHARGING" =>
                 /\ es[n - 1] = ChargeStatusEvent(es[n].timestamp, FALSE)
                 /\ \A m \in DOMAIN es :
                      (/\ es[m].event_type = "REPORT_CHARGE_STATUS"
                       /\ es[m].timestamp = es[n].timestamp + td)
                      => es[m].is_charging
            /\ (es[n].event_type = "STOP_CHARGING"
                /\ users[i].battery_kwh # 0) =>
                 /\ es[n - 1].event_type = "REPORT_POWER_DRAW"
                 /\ es[n - 1].timestamp = es[n].timestamp
                 /\ es[n - 2] = ChargeStatusEvent(es[n].timestamp, TRUE)

C12_ReportUsesPreviousDecision == [](C12_Logs) /\ [][C12_Step]_vars

\* C12 as stated: once the decision of a tick has been made on a user, the
\* tick report of that tick carries the is_charging value that decision
\* produced.
C12_Original ==
    \A i \in UserIds :
        LET status == StatusReportAt(users[i].event_stream,
                                     users[i].current_time)
        IN  (StatusCalls(i) = SocCalls(i) /\ status # None) =>
                status.is_charging = users[i].is_charging

\* A run has ended in which a user started at one tick, was reported as
\* not charging at that tick and as charging at the next, gained charge,
\* and was stopped at a later tick whose report still shows it charging.
C12_Witness ==
    /\ pc = "done"
    /\ \E i \in UserIds :
        LET es == users[i].event_stream IN
        /\ users[i].current_charge_pcnt > users[i].plug_in_soc_pcnt
        /\ \E n, m \in DOMAIN es :
            /\ n < m
            /\ es[n].event_type = "START_CHARGING"
            /\ es[n - 1] = ChargeStatusEvent(es[n].timestamp, FALSE)
            /\ StatusReportAt(es, es[n].timestamp + td).is_charging
            /\ es[m].event_type = "STOP_CHARGING"
            /\ es[m - 2] = ChargeStatusEvent(es[m].timestamp, TRUE)

\* Number of times start_time + k * td that are before end_time.
NumTicks ==
    IF end_time <= start_time THEN 0
    ELSE (end_time - start_time + td - 1) \div td

\* C13.  run() terminates for any start_time, end_time and positive td.  Its
\* loop makes one tick at each time start_time + k * td before end_time, in
\* turn, and none at a time at or after end_time (none at all when
\* start_time >= end_time): a step is entered only before end_time, the clock
\* then advances by td, the loop is left at the first such time that is not
\* before end_time, no event carries a time at or after end_time, and at the
\* end every user whose reports cannot fail has exactly one tick report for
\* each of those times.
C13_Loop ==
    /\ EnterStep => (current_time < end_time /\ current_time' = current_time)
    /\ LeaveStep => current_time' = current_time + td
    /\ ExitLoop => current_time = start_time + NumTicks * td

C13_Ticks ==
    /\ current_time \in {start_time + k * td : k \in 0..NumTicks}
    /\ pc \in {"update_soc", "update_charge_status"} => current_time < end_time
    /\ pc = "done" => current_time >= end_time
    /\ \A i \in UserIds :
        LET es == users[i].event_stream IN
        /\ \A n \in DOMAIN es :
              es[n].timestamp < end_time \/ (n = 1 /\ es[n].timestamp = start_time)
        /\ (pc = "done" /\ users[i].battery_kwh # 0) =>
              /\ CountType(es, "REPORT_CHARGE_STATUS") = NumTicks
              /\ \A k \in 0..(NumTicks - 1) :
                    HasTickReport(es, start_time + k * td)
        /\ (pc = "done" /\ NumTicks = 0) =>
              /\ users[i] = Constructed(users[i])
              /\ error_log = <<>>

C13_RunTerminates ==
    /\ <>(pc = "done")
    /\ [](C13_Ticks)
    /\ [][C13_Loop]_vars

\* A run whose end_time is a tick time has ended: its last tick was the one
\* before end_time, and no user has a tick report at end_time.
C13_Witness ==
    /\ pc = "done"
    /\ NumTicks > 1
    /\ current_time = end_time
    /\ \A i \in UserIds :
          /\ users[i].battery_kwh # 0
          /\ HasTickReport(users[i].event_stream, end_time - td)
          /\ ~HasTickReport(users[i].event_stream, end_time)

\* A run with start_time >= end_time has ended without a tick.
C13_WitnessEmpty ==
    /\ pc = "done"
    /\ end_time <= start_time
    /\ \A i \in UserIds : Len(users[i].event_stream) = 1

\* User i is plugged in over the whole simulated range and starts below a
\* numeric target, with a battery that can take charge.
Covered(i) ==
    LET u == users[i] IN
    /\ u.target_soc_pcnt.type = "number"
    /\ u.plug_in_soc_pcnt < u.target_soc_pcnt.value
    /\ u.battery_kwh > 0
    /\ u.plug_in_datetime <= start_time
    /\ end_time <= u.plug_out_datetime

\* The least charge a tick adds to user i while it is charging below 100 %:
\* the charger delivers more than half of charger_kw there.
MinGain(i) ==
    (users[i].charger_kw * 500 * total_seconds(td))
        \div (3600 * users[i].battery_kwh)

\* The run has enough ticks for user i to reach its target: one tick passes
\* before charging starts, every later one adds at least MinGain(i).
EnoughTicks(i) ==
    /\ MinGain(i) > 0
    /\ (NumTicks - 1) * MinGain(i)
         >= users[i].target_soc_pcnt.value - users[i].plug_in_soc_pcnt

TargetReached(i) ==
    users[i].current_charge_pcnt >= users[i].target_soc_pcnt.value

\* C14.  For a user plugged in over the whole simulated range with
\* plug_in_soc below its target: given enough ticks its SOC eventually
\* reaches or exceeds the target; the charge decision made once the target
\* is reached finds should_be_charging false and leaves the user not
\* charging; and every update_soc after it leaves current_charge_pcnt
\* unchanged and appends no REPORT_POWER_DRAW event.
C14_Step ==
    LET u == users[idx]
        v == users'[idx]
    IN  /\ (IsIteration("update_charge_status") /\ Covered(idx)
            /\ TargetReached(idx)) =>
              /\ ~should_be_charging([u EXCEPT !.current_time = current_time]).value
              /\ ~v.is_charging
        /\ (IsIteration("update_soc") /\ Covered(idx) /\ TargetReached(idx)) =>
              /\ ~u.is_charging
              /\ v.current_charge_pcnt = u.current_charge_pcnt
              /\ CountType(v.event_stream, "REPORT_POWER_DRAW")
                   = CountType(u.event_stream, "REPORT_POWER_DRAW")

C14_Stopped ==
    \A i \in UserIds :
        (Covered(i) /\ TargetReached(i) /\ StatusCalls(i) = SocCalls(i))
            => ~users[i].is_charging

C14_Reaches ==
    \A i \in UserIds :
        <>(~(Covered(i) /\ EnoughTicks(i)) \/ TargetReached(i))

C14_FullChargeStop == C14_Reaches /\ [](C14_Stopped) /\ [][C14_Step]_vars

\* A run has ended in which a user plugged in over the whole range reached
\* its target at some tick, was stopped at that tick, and was then reported
\* at a later tick with the same SOC and no power draw.
C14_Witness ==
    /\ pc = "done"
    /\ \E i \in UserIds :
        LET es == users[i].event_stream IN
        /\ Covered(i) /\ EnoughTicks(i) /\ TargetReached(i)
        /\ ~users[i].is_charging
        /\ \E n \in DOMAIN es :
            /\ es[n].event_type = "STOP_CHARGING"
            /\ es[n].timestamp < current_time - td
            /\ es[n].soc_pcnt = users[i].current_charge_pcnt
            /\ es[Len(es)] = ChargeStatusEvent(current_time - td, FALSE)
            /\ es[Len(es) - 1] =
                 SocEvent("REPORT_SOC", current_time - td,
                          users[i].current_charge_pcnt)

\* C15.  In every reachable state each user's event stream is in
\* chronological order: it starts with the REPORT_SOC event appended at
\* construction, and the timestamps never decrease from one event to the
\* next.
C15_Chronological ==
    \A i \in UserIds :
        LET es == users[i].event_stream IN
        /\ Len(es) >= 1
        /\ es[1] = SocEvent("REPORT_SOC", start_time, users[i].plug_in_soc_pcnt)
        /\ \A n \in 1..(Len(es) - 1) : es[n].timestamp <= es[n + 1].timestamp

\* A run has ended with a stream that holds events of several ticks, two of
\* them of the same time and two of different times.
C15_Witness ==
    /\ pc = "done"
    /\ \E i \in UserIds :
        LET es == users[i].event_stream IN
        /\ CountType(es, "START_CHARGING") = 1
        /\ CountType(es, "STOP_CHARGING") = 1
        /\ \E n, m \in 1..(Len(es) - 1) :
            /\ es[n].timestamp = es[n + 1].timestamp
            /\ es[m].timestamp < es[m + 1].timestamp

\* C16.  The event stream is append-only.  Every step of the run leaves each
\* user's stream as it was or extends it at its tail; and in every reachable
\* state start_charging, stop_charging and update_and_report_soc, applied to
\* a user at any clock, return or raise with a stream that the stream before
\* the call is a prefix of.  (The reads, last_reported_soc and the two
\* filters, are expressions over the stream: they assign nothing.)
C16_Step ==
    \A i \in UserIds :
        IsPrefix(users[i].event_stream, users'[i].event_stream)

C16_Operations ==
    \A i \in UserIds : \A t \in ProbeTimes(users[i]) :
        LET u == [users[i] EXCEPT !.current_time = t]
            es == u.event_stream
        IN  /\ IsPrefix(es, start_charging(u).event_stream)
            /\ IsPrefix(es, stop_charging(u).event_stream)
            /\ t >= users[i].current_time =>
                 IsPrefix(es, update_and_report_soc(u).user.event_stream)
            /\ IsPrefix(es, update_soc_body(u, t).user.event_stream)
            /\ IsPrefix(es, update_charge_status_body(u, t).user.event_stream)

C16_AppendOnly == [](C16_Operations) /\ [][C16_Step]_vars

\* A run has ended with a stream to which every kind of operation has
\* appended: tick reports with power draw, a start and a stop.
C16_Witness ==
    /\ pc = "done"
    /\ \E i \in UserIds :
        LET es == users[i].event_stream IN
        /\ CountType(es, "START_CHARGING") >= 1
        /\ CountType(es, "STOP_CHARGING") >= 1
        /\ CountType(es, "REPORT_POWER_DRAW") >= 2
        /\ CountType(es, "REPORT_CHARGE_STATUS") >= 3

\* Index of the last REPORT_SOC event of a stream that has one.
LastSocIndex(es) ==
    CHOOSE n \in DOMAIN es :
        /\ es[n].event_type = "REPORT_SOC"
        /\ \A m \in (n + 1)..Len(es) : es[m].event_type # "REPORT_SOC"

\* C17.  In every reachable state each user's stream holds at least one
\* REPORT_SOC event, so last_reported_soc never returns None; it returns the
\* REPORT_SOC event nearest the tail, and still does after events of other
\* kinds are appended behind it.
C17_LastSocReport ==
    \A i \in UserIds :
        LET es == users[i].event_stream
            t == users[i].current_time
        IN  /\ CountType(es, "REPORT_SOC") >= 1
            /\ last_reported_soc(es) # None
            /\ last_reported_soc(es) = es[LastSocIndex(es)]
            /\ last_reported_soc(append_report_charge_status(es, t, TRUE))
                 = es[LastSocIndex(es)]
            /\ last_reported_soc(
                 append_report_power_draw(
                     append_start_charging(
                         append_stop_charging(es, t, 0), t, 0), t, 0))
                 = es[LastSocIndex(es)]

\* A stream holds several different REPORT_SOC events, the last of them
\* followed by events of other kinds, and last_reported_soc returns that one.
C17_Witness ==
    \E i \in UserIds :
        LET es == users[i].event_stream IN
        /\ CountType(es, "REPORT_SOC") >= 3
        /\ LastSocIndex(es) < Len(es) - 1
        /\ es[LastSocIndex(es)] # es[1]
        /\ last_reported_soc(es) = es[LastSocIndex(es)]

\* C18.  In every reachable state of a run whose users have plug_in_soc_pcnt
\* and target_soc_pcnt within [0, 100], every user's current_charge_pcnt is
\* within [0, 100] (0..1000 tenths of a percent).
C18_SocWithinBounds ==
    \A i \in UserIds :
        (/\ users[i].target_soc_pcnt.type = "number"
         /\ users[i].target_soc_pcnt.value \in 0..1000
         /\ users[i].plug_in_soc_pcnt \in 0..1000)
        => users[i].current_charge_pcnt \in 0..1000

\* Times of day (minutes after midnight) around midnight, 06:00, noon and
\* 22:00, and the days a plug-in instant is put on.
ProbeTimesOfDay == {0, 1, 359, 360, 361, 720, 1319, 1320, 1321, 1439}

ProbeDays == 0..1

\* C19.  The plug-out instant _calculate_plug_out_datetime resolves is on
\* the plug-in instant's day when the plug-out time of day is greater than
\* or equal to the plug-in time of day, and on the following day when it is
\* strictly earlier; so it keeps the plug-out time of day and is at least 0
\* and less than 24 hours after the plug-in instant, and for plug-in 22:00
\* and plug-out 06:00 it is exactly 8 hours (480 minutes) after plug-in.
\* This holds for every pair of probe times of day (evaluated between the
\* ticks of the run), and for the window of every user of the run.
C19_Resolved(plug_in_datetime, plug_out_time, plug_out_datetime) ==
    LET plug_in_time == time_of(plug_in_datetime) IN
    /\ time_of(plug_out_datetime) = plug_out_time
    /\ plug_out_time >= plug_in_time =>
          date_of(plug_out_datetime) = date_of(plug_in_datetime)
    /\ plug_out_time < plug_in_time =>
          date_of(plug_out_datetime) = date_of(plug_in_datetime) + 1
    /\ 0 <= plug_out_datetime - plug_in_datetime
    /\ plug_out_datetime - plug_in_datetime < MinutesPerDay
    /\ (plug_in_time = 1320 /\ plug_out_time = 360) =>
          plug_out_datetime = plug_in_datetime + 480

C19_PlugOutRollover ==
    /\ \A d \in ProbeDays : \A i, o \in ProbeTimesOfDay :
          pc = "run" =>
          C19_Resolved(combine(d, i), o,
                       _calculate_plug_out_datetime(combine(d, i), o))
    /\ \A n \in UserIds :
          C19_Resolved(users[n].plug_in_datetime,
                       time_of(users[n].plug_out_datetime),
                       users[n].plug_out_datetime)

\* A run holds a user plugged in at 22:00 whose plug-out at 06:00 was
\* resolved to the following day, 8 hours later, next to a user whose
\* plug-out is on the day of its plug-in.
C19_Witness ==
    \E n, m \in UserIds :
        /\ time_of(users[n].plug_in_datetime) = 1320
        /\ time_of(users[n].plug_out_datetime) = 360
        /\ date_of(users[n].plug_out_datetime)
             = date_of(users[n].plug_in_datetime) + 1
        /\ users[n].plug_out_datetime = users[n].plug_in_datetime + 480
        /\ date_of(users[m].plug_out_datetime) = date_of(users[m].plug_in_datetime)
        /\ users[m].plug_out_datetime > users[m].plug_in_datetime

\* The whole percentages of charge from 0 % to 100 %, in tenths of a percent.
WholePercents == {10 * k : k \in 0..100}

\* User u at a given charge.
AtCharge(u, soc) == [u EXCEPT !.current_charge_pcnt = soc]

\* C20.  For every charge in [0, 100] and every charger_kw > 0 the effective
\* power _current_charger_kw is above 0 and below charger_kw, and it is
\* strictly decreasing in the charge: from each whole percent to the next
\* it falls.  This holds for every user put at every whole percent of
\* charge (evaluated between the ticks of the run: charger_kw never
\* changes), for every user at its own charge, and for the power every
\* REPORT_POWER_DRAW event reports for a charge within [0, 100].
C20_PowerCurve ==
    \A i \in UserIds :
        LET u == users[i]
            es == u.event_stream
        IN  u.charger_kw > 0 =>
            /\ \A soc \in (IF pc = "run" THEN WholePercents ELSE {}) :
                  /\ 0 < _current_charger_kw(AtCharge(u, soc))
                  /\ _current_charger_kw(AtCharge(u, soc)) < 1000 * u.charger_kw
                  /\ soc < 1000 =>
                        _current_charger_kw(AtCharge(u, soc + 10))
                            < _current_charger_kw(AtCharge(u, soc))
            /\ u.current_charge_pcnt \in 0..1000 =>
                  /\ 0 < _current_charger_kw(u)
                  /\ _current_charger_kw(u) < 1000 * u.charger_kw
            /\ \A n \in 3..Len(es) :
                  (/\ es[n].event_type = "REPORT_POWER_DRAW"
                   /\ es[n - 2].soc_pcnt \in 0..1000) =>
                      /\ 0 < es[n].power_draw_kw
                      /\ es[n].power_draw_kw < 1000 * u.charger_kw

\* A user has reported its power draw at two ticks, at a charge within
\* [0, 100] that had grown in between: the second power is below the first
\* and both are between 0 and charger_kw.
C20_Witness ==
    \E i \in UserIds :
        LET es == users[i].event_stream IN
        \E n, m \in 3..Len(es) :
            /\ n < m
            /\ es[n].event_type = "REPORT_POWER_DRAW"
            /\ es[m].event_type = "REPORT_POWER_DRAW"
            /\ es[n - 2].soc_pcnt < es[m - 2].soc_pcnt
            /\ es[m - 2].soc_pcnt <= 1000
            /\ 0 < es[m].power_draw_kw
            /\ es[m].power_draw_kw < es[n].power_draw_kw
            /\ es[n].power_draw_kw < 1000 * users[i].charger_kw

\* C21 (amended).  When the pcnt_population values of the loaded records do
\* not sum to 100, _load_population_of_users first constructs one User per
\* record, then its assert raises AssertionError: no user is copied into
\* the population, no controller is built, the clock stays at start_time
\* and no tick is executed.
C21_Mismatch ==
    /\ loader.config # <<>>
    /\ sum_pcnt_population(loader.config) # 100

C21_Step ==
    C21_Mismatch =>
        /\ LoadSanityCheck =>
              /\ pc' = "raised"
              /\ loader'.exc = "AssertionError"
              /\ Len(loader.users) = Len(loader.config)
        /\ ~LoadDuplicate /\ ~LoadReturn /\ ~Next

C21_State ==
    /\ C21_Mismatch =>
          /\ pc \in {"load", "raised"}
          /\ loader.population = <<>>
          /\ users = <<>>
          /\ current_time = start_time
          /\ error_log = <<>>
    /\ loader.exc # "none" =>
          /\ C21_Mismatch
          /\ pc = "raised"
          /\ loader.exc = "AssertionError"
          /\ \A k \in DOMAIN loader.config :
                loader.users[k].user
                    = User__init__(loader.config[k].cfg, start_time)

C21_LoadFails == [](C21_State) /\ [][C21_Step]_vars

\* C21 as stated: when the load has failed on a sum other than 100, no user
\* has been constructed.
C21_Original ==
    (pc = "raised" /\ C21_Mismatch) => loader.users = <<>>

\* A load has failed on shares that do not sum to 100, after a User with
\* its first REPORT_SOC event was constructed for every record.
C21_Witness ==
    /\ pc = "raised"
    /\ loader.exc = "AssertionError"
    /\ C21_Mismatch
    /\ Len(loader.users) = NumUsers
    /\ \A k \in DOMAIN loader.users :
          Len(loader.users[k].user.event_stream) = 1
    /\ users = <<>>

\* u is not charging and no later charge decision can start it: its
\* plug-out instant has passed or its charge has reached its target (the
\* charge of a user that is not charging never changes).
Absorbed(u) ==
    /\ ~u.is_charging
    /\ \/ u.current_time > u.plug_out_datetime
       \/ u.target_soc_pcnt.type # "number"
       \/ u.current_charge_pcnt >= u.target_soc_pcnt.value

\* C22 (amended).  A user is evaluated at every tick for the whole run, but
\* NOT_CHARGING becomes absorbing: the plug-in and plug-out instants are
\* fixed at construction and the charge never falls, so a user whose
\* session has been stopped is past its plug-out instant or at its target,
\* stays so and is never charging again, however long the run.  Every log
\* holds at most one START_CHARGING and at most one STOP_CHARGING event.
C22_Step ==
    \A i \in UserIds :
        Absorbed(users[i]) => Absorbed(users'[i])

C22_State ==
    \A i \in UserIds :
        LET es == users[i].event_stream IN
        /\ CountType(es, "START_CHARGING") <= 1
        /\ CountType(es, "STOP_CHARGING") <= 1
        /\ CountType(es, "STOP_CHARGING") = 1 => Absorbed(users[i])

InDailyWindow(u, t) ==
    \E d \in 0..NumDays :
        /\ u.plug_in_datetime + d * MinutesPerDay <= t
        /\ t <= u.plug_out_datetime + d * MinutesPerDay

\* C23.  On every simulated day, a user whose charge is below its target
\* is eligible at the ticks inside that day's plug window: once the charge
\* decision of such a tick has been made on it, it is charging.
C23_DailyWindow ==
    \A i \in UserIds :
        LET u == users[i] IN
        (/\ StatusCalls(i) = SocCalls(i)
         /\ StatusCalls(i) >= 1
         /\ u.target_soc_pcnt.type = "number"
         /\ u.current_charge_pcnt < u.target_soc_pcnt.value
         /\ InDailyWindow(u, u.current_time))
        => u.is_charging

\* The try body of a controller operation.
Body(op, u, t) ==
    IF op = "update_soc" THEN update_soc_body(u, t)
    ELSE update_charge_status_body(u, t)

\* A controller operation made at time t over the users us, visited in the
\* order given by the sequence of indices `order`.
RECURSIVE LoopOver(_, _, _, _)
LoopOver(us, order, op, t) ==
    IF order = <<>> THEN us
    ELSE LET i == Head(order)
             r == Body(op, us[i], t)
         IN  IF r.exc \in ExceptionClasses \cup {"none"}
             THEN LoopOver([us EXCEPT ![i] = r.user], Tail(order), op, t)
             ELSE [us EXCEPT ![i] = r.user]

\* A tick at time t over the users us visited in the given order.
TickOver(us, order, t) ==
    LoopOver(LoopOver(us, order, _step[1], t), order, _step[2], t)

\* The orders in which a population of NumUsers users can be visited.
Orders ==
    {o \in [UserIds -> UserIds] : \A i, j \in UserIds : o[i] = o[j] => i = j}

ListOrder == [i \in UserIds |-> i]

\* C24.  Users are mutually independent.  A controller iteration on a user
\* changes that user only, to what the operation makes of it from its own
\* fields and the time; the other users are left as they are.  So a tick
\* over the population visited in any order leaves every user with the
\* same state and the same event stream as the tick in list order, which
\* is what the tick makes of that user alone.
C24_Step ==
    \A op \in {"update_soc", "update_charge_status"} :
        IsIteration(op) =>
            /\ \A j \in UserIds \ {idx} : users'[j] = users[j]
            /\ users'[idx] = Body(op, users[idx], current_time).user

C24_AnyOrder ==
    (pc = "run" /\ current_time < end_time) =>
        \A order \in Orders :
            /\ TickOver(users, order, current_time)
                 = TickOver(users, ListOrder, current_time)
            /\ \A i \in UserIds :
                 TickOver(users, order, current_time)[i]
                   = AloneFrom(users[i], 2 * TicksDone + 1, 2 * TicksDone + 2)

C24_Independent == [](C24_AnyOrder) /\ [][C24_Step]_vars

\* A tick is about to be made on users of different configurations, one of
\* which raises in it while another is changed by it, in a population that
\* can be visited in more than one order.
C24_Witness ==
    /\ pc = "run"
    /\ current_time < end_time
    /\ TicksDone >= 2
    /\ \E order \in Orders : order # ListOrder
    /\ \E i, j \in UserIds :
        /\ users[i].name # users[j].name
        /\ update_soc_body(users[i], current_time).exc # "none"
        /\ update_soc_body(users[j], current_time).exc = "none"
        /\ users[j].is_charging
        /\ TickOver(users, ListOrder, current_time)[j].current_charge_pcnt
             > users[j].current_charge_pcnt

\* C25.  start_charging() on a user that is not charging, at any clock, sets
\* is_charging, appends exactly a START_CHARGING event followed by a
\* REPORT_SOC event, both with the user's clock and charge, and changes no
\* other field (current_charge_pcnt in particular); that REPORT_SOC event is
\* then the last reported SOC, and the next _update_soc adds the energy of
\* the time elapsed since it.
C25_StartCharging ==
    \A i \in UserIds : \A t \in ProbeTimes(users[i]) :
        LET u == [users[i] EXCEPT !.current_time = t]
            v == start_charging(u)
            anchor == SocEvent("REPORT_SOC", t, u.current_charge_pcnt)
        IN  ~u.is_charging =>
            /\ v = [u EXCEPT !.is_charging = TRUE,
                             !.event_stream = v.event_stream]
            /\ v.is_charging
            /\ v.current_charge_pcnt = u.current_charge_pcnt
            /\ IsPrefix(u.event_stream, v.event_stream)
            /\ Appended(u.event_stream, v.event_stream)
                 = <<SocEvent("START_CHARGING", t, u.current_charge_pcnt),
                     anchor>>
            /\ last_reported_soc(v.event_stream) = anchor
            /\ (u.battery_kwh > 0 /\ t = users[i].current_time) =>
                 \A e \in ProbeElapsed :
                    _update_soc([v EXCEPT !.current_time = t + e]).user
                        .current_charge_pcnt
                      = u.current_charge_pcnt
                        + (_current_charger_kw(u) * total_seconds(e))
                            \div (3600 * u.battery_kwh)

\* A user was started at one tick and updated at the next: its log holds
\* START_CHARGING and REPORT_SOC with the time and charge of the start, then
\* the REPORT_SOC of the next tick with the charge of one tick added.
C25_Witness ==
    \E i \in UserIds :
        LET u == users[i]
            es == u.event_stream
        IN  \E n \in 2..(Len(es) - 2) :
            /\ es[n].event_type = "START_CHARGING"
            /\ es[n - 1] = ChargeStatusEvent(es[n].timestamp, FALSE)
            /\ es[n + 1] = SocEvent("REPORT_SOC", es[n].timestamp, es[n].soc_pcnt)
            /\ es[n + 2].event_type = "REPORT_SOC"
            /\ es[n + 2].timestamp = es[n].timestamp + td
            /\ es[n + 2].soc_pcnt > es[n].soc_pcnt
            /\ es[n + 2].soc_pcnt
                 = es[n].soc_pcnt
                   + (_current_charger_kw(AtCharge(u, es[n].soc_pcnt))
                        * total_seconds(td)) \div (3600 * u.battery_kwh)

\* C26 (amended).  The effective power does not taper toward zero: at a
\* charge of 0 % it is 0.5 (tanh(1) + 1) = 0.88 of charger_kw, at 100 % it
\* is exactly half of charger_kw, and at every charge within [0, 100] it is
\* at least half of charger_kw (500 W per kW).
C26_PowerRange ==
    \A i \in UserIds :
        LET u == users[i]
            es == u.event_stream
        IN  u.charger_kw > 0 =>
            /\ _current_charger_kw(AtCharge(u, 0)) >= 880 * u.charger_kw
            /\ _current_charger_kw(AtCharge(u, 0)) <= 881 * u.charger_kw
            /\ _current_charger_kw(AtCharge(u, 1000)) = 500 * u.charger_kw
            /\ u.current_charge_pcnt \in 0..1000 =>
                  _current_charger_kw(u) >= 500 * u.charger_kw
            /\ \A n \in 3..Len(es) :
                  (/\ es[n].event_type = "REPORT_POWER_DRAW"
                   /\ es[n - 2].soc_pcnt \in 0..1000) =>
                      es[n].power_draw_kw >= 500 * u.charger_kw

\* C26 as stated, with "close to" taken as within a tenth of charger_kw:
\* at 0 % the power is at least 0.9 of charger_kw and at 100 % at most 0.1
\* of it.
C26_Original ==
    \A i \in UserIds :
        LET u == users[i] IN
        u.charger_kw > 0 =>
            /\ _current_charger_kw(AtCharge(u, 0)) >= 900 * u.charger_kw
            /\ _current_charger_kw(AtCharge(u, 1000)) <= 100 * u.charger_kw

\* A user has reported its power draw at a charge between 90 % and 100 %:
\* a little above half of charger_kw.
C26_Witness ==
    \E i \in UserIds :
        LET es == users[i].event_stream IN
        \E n \in 3..Len(es) :
            /\ es[n].event_type = "REPORT_POWER_DRAW"
            /\ es[n - 2].soc_pcnt \in 900..1000
            /\ es[n].power_draw_kw >= 500 * users[i].charger_kw
            /\ es[n].power_draw_kw < 550 * users[i].charger_kw

\* C27.  Overshoot of the target is bounded by one tick.  A user that can
\* be charged without failure (numeric target, battery_kwh > 0) and starts
\* below its target never has a charge at or above the target plus what
\* charger_kw delivers in one tick, 100 * charger_kw * tick seconds /
\* (3600 * battery_kwh) percent; and once the charge decision of a tick has
\* been made on a user whose charge has reached the target, the user is not
\* charging.
C27_BoundedOvershoot ==
    \A i \in UserIds :
        LET u == users[i] IN
        (/\ u.target_soc_pcnt.type = "number"
         /\ u.battery_kwh > 0
         /\ u.plug_in_soc_pcnt < u.target_soc_pcnt.value)
        =>
        /\ (u.current_charge_pcnt - u.target_soc_pcnt.value)
              * 3600 * u.battery_kwh
             < 1000 * u.charger_kw * total_seconds(td)
        /\ (/\ u.current_charge_pcnt >= u.target_soc_pcnt.value
            /\ StatusCalls(i) = SocCalls(i))
           => ~u.is_charging

\* A user that started below its target has gone past it in one tick and
\* was stopped by the decision of that tick.
C27_Witness ==
    \E i \in UserIds :
        LET u == users[i]
            es == u.event_stream
        IN  /\ u.plug_in_soc_pcnt < u.target_soc_pcnt.value
            /\ u.current_charge_pcnt > u.target_soc_pcnt.value
            /\ ~u.is_charging
            /\ es[Len(es) - 1] =
                 SocEvent("STOP_CHARGING", u.current_time, u.current_charge_pcnt)
            /\ es[Len(es) - 3] =
                 ChargeStatusEvent(u.current_time, TRUE)

\* C28.  A user whose target_soc_pcnt equals its plug_in_soc_pcnt is never
\* charging: should_be_charging is false at every clock from construction
\* on, its log holds no START_CHARGING, STOP_CHARGING or REPORT_POWER_DRAW
\* event, and its charge stays equal to plug_in_soc_pcnt.
C28_TargetAtPlugIn ==
    \A i \in UserIds :
        LET u == users[i]
            es == u.event_stream
        IN  (/\ u.target_soc_pcnt.type = "number"
             /\ u.target_soc_pcnt.value = u.plug_in_soc_pcnt)
            =>
            /\ ~u.is_charging
            /\ u.current_charge_pcnt = u.plug_in_soc_pcnt
            /\ CountType(es, "START_CHARGING") = 0
            /\ CountType(es, "STOP_CHARGING") = 0
            /\ CountType(es, "REPORT_POWER_DRAW") = 0
            /\ \A t \in ProbeTimes(u) :
                  should_be_charging([u EXCEPT !.current_time = t])
                      = [exc |-> "none", value |-> FALSE]

\* A run has ended in which a user with target equal to plug-in charge was
\* reported at a tick inside its plug window and never started, next to a
\* user with the same window that was started.
C28_Witness ==
    /\ pc = "done"
    /\ \E i, j \in UserIds :
        LET u == users[i] IN
        /\ u.target_soc_pcnt.type = "number"
        /\ u.target_soc_pcnt.value = u.plug_in_soc_pcnt
        /\ \E t \in u.plug_in_datetime..u.plug_out_datetime :
              HasTickReport(u.event_stream, t)
        /\ CountType(u.event_stream, "START_CHARGING") = 0
        /\ users[j].plug_in_datetime = u.plug_in_datetime
        /\ users[j].plug_out_datetime = u.plug_out_datetime
        /\ CountType(users[j].event_stream, "START_CHARGING") = 1

\* The START_CHARGING and STOP_CHARGING events of a stream, in order.
Sessions(es) ==
    SelectSeq(es, LAMBDA e : e.event_type \in {"START_CHARGING", "STOP_CHARGING"})

\* The start and stop events of u alternate from a START_CHARGING on, each
\* is followed at once by a REPORT_SOC event of the same time and charge,
\* and u is charging exactly when the last of them is a START_CHARGING.
Alternating(u) ==
    LET es == u.event_stream
        ss == Sessions(es)
    IN  /\ \A k \in DOMAIN ss :
              ss[k].event_type =
                  IF k % 2 = 1 THEN "START_CHARGING" ELSE "STOP_CHARGING"
        /\ \A n \in DOMAIN es :
              es[n].event_type \in {"START_CHARGING", "STOP_CHARGING"} =>
                  /\ n < Len(es)
                  /\ es[n + 1] = SocEvent("REPORT_SOC", es[n].timestamp,
                                          es[n].soc_pcnt)
        /\ u.is_charging = (Len(ss) % 2 = 1)

\* C29.  In every reachable state of every user the START_CHARGING and
\* STOP_CHARGING events of its log strictly alternate, beginning with a
\* START_CHARGING; each is immediately followed by a REPORT_SOC event with
\* the same timestamp and charge; and is_charging is true exactly when the
\* last of them is a START_CHARGING (false when there is none).  This
\* remains so after any further calls of start_charging and stop_charging.
C29_Alternation ==
    \A i \in UserIds :
        LET u == users[i]
            more == stop_charging(start_charging(stop_charging(u)))
        IN  /\ Alternating(u)
            /\ Alternating(start_charging(u))
            /\ Alternating(stop_charging(u))
            /\ Alternating(more)
            /\ Alternating(start_charging(start_charging(more)))
            /\ Alternating(stop_charging(more))

\* Between two ticks, a user whose log holds a START_CHARGING then a
\* STOP_CHARGING event is not charging, next to a user that was started,
\* not stopped yet, and is charging.
C29_Witness ==
    /\ pc = "run"
    /\ \E i, j \in UserIds :
        /\ Len(Sessions(users[i].event_stream)) = 2
        /\ ~users[i].is_charging
        /\ Len(Sessions(users[j].event_stream)) = 1
        /\ users[j].is_charging

\* C30.  In a tick report of a charging user that does not fail, the charge
\* added is the energy of the elapsed time at the effective power of the
\* charge before the update, while the REPORT_POWER_DRAW event carries the
\* effective power of the charge after the update, the one the REPORT_SOC
\* event of the same tick carries; the elapsed time being positive, the
\* reported power is strictly lower than the power the energy was computed
\* with.
C30_Step ==
    (IsIteration("update_soc") /\ users[idx].is_charging
     /\ error_log' = error_log) =>
        LET u == users[idx]
            v == users'[idx]
            new == Appended(u.event_stream, v.event_stream)
            elapsed == current_time - last_reported_soc(u.event_stream).timestamp
            before == _current_charger_kw(u)
        IN  /\ elapsed > 0
            /\ v.current_charge_pcnt
                 = u.current_charge_pcnt
                   + (before * total_seconds(elapsed)) \div (3600 * u.battery_kwh)
            /\ Len(new) = 3
            /\ new[1] = SocEvent("REPORT_SOC", current_time, v.current_charge_pcnt)
            /\ new[3] = PowerDrawEvent(current_time,
                            _current_charger_kw(AtCharge(u, new[1].soc_pcnt)))
            /\ new[3].power_draw_kw < before

C30_ReportedPowerAfterUpdate == [][C30_Step]_vars

\* A charging user has just been reported: its log ends with a REPORT_SOC
\* of a charge above that of the report before, a REPORT_CHARGE_STATUS and
\* a REPORT_POWER_DRAW with the power of the new charge, which is below the
\* power of the old one.
C30_Witness ==
    /\ pc = "update_soc"
    /\ \E i \in UserIds :
        LET u == users[i]
            es == u.event_stream
            n == Len(es)
        IN  /\ idx > i
            /\ n >= 6
            /\ es[n].event_type = "REPORT_POWER_DRAW"
            /\ es[n].timestamp = current_time
            /\ es[n - 2].event_type = "REPORT_SOC"
            /\ es[n - 3].event_type \in {"REPORT_SOC", "REPORT_POWER_DRAW"}
            /\ es[n - 2].soc_pcnt = u.current_charge_pcnt
            /\ es[n].power_draw_kw = _current_charger_kw(u)
            /\ \E m \in 1..(n - 3) :
                /\ es[m].event_type = "REPORT_SOC"
                /\ es[m].soc_pcnt < u.current_charge_pcnt
                /\ es[n].power_draw_kw
                     < _current_charger_kw(AtCharge(u, es[m].soc_pcnt))

\* C31.  In an update_soc iteration that does not fail, the charge of the
\* user grows if and only if the user is charging when the iteration begins,
\* that is, if the charge decision of the tick before left it charging;
\* it then grows by the energy of one whole tick, whatever should_be_charging
\* is at the time of the update.  So a whole tick of energy is still added
\* at the first tick after the plug-out instant, and none at the tick at
\* which the user is started: in every log the tick report of a
\* START_CHARGING time carries the charge of the report before it, and a
\* user stopped at the first tick after plug-out has a tick report of that
\* time with a higher charge than the report before.
C31_Step ==
    (IsIteration("update_soc") /\ error_log' = error_log) =>
        LET u == users[idx]
            v == users'[idx]
        IN  /\ (v.current_charge_pcnt > u.current_charge_pcnt) <=> u.is_charging
            /\ v.current_charge_pcnt >= u.current_charge_pcnt
            /\ u.is_charging =>
                 /\ u.current_time = current_time - td
                 /\ v.current_charge_pcnt
                      = u.current_charge_pcnt
                        + (_current_charger_kw(u) * total_seconds(td))
                            \div (3600 * u.battery_kwh)
            /\ v.is_charging = u.is_charging

C31_Logs ==
    \A i \in UserIds :
        LET es == users[i].event_stream IN
        \A n \in 4..Len(es) :
            /\ es[n].event_type = "START_CHARGING" =>
                 /\ es[n - 2] = SocEvent("REPORT_SOC", es[n].timestamp,
                                         es[n].soc_pcnt)
                 /\ es[n - 3].event_type \in {"REPORT_SOC", "REPORT_CHARGE_STATUS"}
                 /\ last_reported_soc(SubSeq(es, 1, n - 3)).soc_pcnt
                      = es[n].soc_pcnt
            /\ (/\ es[n].event_type = "STOP_CHARGING"
                /\ users[i].battery_kwh > 0
                /\ es[n].timestamp > users[i].plug_out_datetime) =>
                 /\ es[n].timestamp - td <= users[i].plug_out_datetime
                 /\ es[n - 3] = SocEvent("REPORT_SOC", es[n].timestamp,
                                         es[n].soc_pcnt)
                 /\ last_reported_soc(SubSeq(es, 1, n - 4)).soc_pcnt
                      < es[n].soc_pcnt

C31_EnergyFollowsPreviousDecision == [](C31_Logs) /\ [][C31_Step]_vars

\* A user below its target has just been updated at the first tick after
\* its plug-out instant, where should_be_charging is false: it is still
\* charging and its charge has grown by that tick; earlier, the tick report
\* of the time it was started carried its plug-in charge.
C31_Witness ==
    /\ pc = "update_soc"
    /\ \E i \in UserIds :
        LET u == users[i]
            es == u.event_stream
            n == Len(es)
        IN  /\ idx > i
            /\ u.is_charging
            /\ u.current_time = current_time
            /\ current_time > u.plug_out_datetime
            /\ current_time - td <= u.plug_out_datetime
            /\ ~should_be_charging(u).value
            /\ es[n].event_type = "REPORT_POWER_DRAW"
            /\ es[n - 2] = SocEvent("REPORT_SOC", current_time,
                                    u.current_charge_pcnt)
            /\ last_reported_soc(SubSeq(es, 1, n - 3)).soc_pcnt
                 < u.current_charge_pcnt
            /\ \E m \in 4..n :
                /\ es[m].event_type = "START_CHARGING"
                /\ es[m - 2] = SocEvent("REPORT_SOC", es[m].timestamp,
                                        u.plug_in_soc_pcnt)

====
